---- MODULE Spec2Model ----
(***************************************************************************)
(* Model of the SQLite backend of dp1-feed:                                *)
(*   - SqliteQueue / SqliteQueueProvider  (queue/sqlite-queue.ts)          *)
(*   - SqliteKVStorage / SqliteStorageProvider (storage/sqlite-kv.ts)      *)
(*   - the shared providers of env/sqlite.ts                               *)
(*                                                                         *)
(* Specifications:                                                         *)
(*   Spec      the SqliteQueue API called in any order on two queue        *)
(*             objects that share the write_queue table                    *)
(*   SpecProc  the in-process queue processor (timer, batches, dispatch),  *)
(*             producers calling send, and shutdown                        *)
(*   SpecLive  SpecProc's running processor with fairness of the timer     *)
(*             and of the dispatch target                                  *)
(*   SpecKV    the key-value tables under batch writers and readers        *)
(*   SpecScan  a paginated list() scan with writers in between the pages   *)
(*   SpecCalls the SqliteQueue methods, each call recorded                 *)
(*   SpecPair  two handlers calling putMultiple on disjoint keys           *)
(*   SpecBatch the processor draining a backlog longer than one batch      *)
(*   SpecEnv   initializeSqliteEnv, the processor start and the shutdown   *)
(*             of env/sqlite.ts                                            *)
(***************************************************************************)
EXTENDS Integers, Sequences, FiniteSets, TLC

VARIABLES
  write_queue,         \* the rows of table write_queue; row i has id i
  ret,                 \* what the last SqliteQueue call returned
  hist,                \* per row: the markFailed / markProcessed calls made on it
  dbOpen,              \* the better-sqlite3 handle is open
  activeTimers,        \* number of setInterval timers not yet cleared
  processingInterval,  \* SqliteQueueProvider.processingInterval is non-null
  processing,          \* SqliteQueueProvider.processing
  inflight,            \* the suspended processPendingMessages calls (awaiting fetch)
  lastEvent,           \* the last step: a timer tick (ran or skipped), the outcome of the
                       \* dispatch that returned, or "other"
  dispatchLog,         \* the last call of fetch() made by the processor
  closedUse,           \* who ran a statement on the handle after close(): "no", "tick", "batch"
  dispatches,          \* per row id: the calls of fetch() made for it, and whether one
                       \* of them was answered with success = true
  kv,                  \* the rows of the key-value tables, by namespace
  tx,                  \* the db.transaction(...) call that is executing, if any
  kvRet,               \* what the last SqliteKVStorage call returned
  written,             \* per namespace and key: the value of the last put that returned, Absent after a delete
  scan,                \* a caller paging through list() with the cursors it is handed
  pair,                \* two concurrent putMultiple calls: their batches and how far each got
  call,                \* the last SqliteQueue method called, with its arguments
  env,                 \* env/sqlite.ts: the module's providers and every provider built so far
  envRet               \* what the last initializeSqliteEnv call returned or threw

queueVars == <<write_queue, ret, hist>>
procVars  == <<dbOpen, activeTimers, processingInterval, processing, inflight,
               lastEvent, dispatchLog, closedUse, dispatches>>
kvVars == <<kv, tx, kvRet, written, scan, pair>>
envVars == <<env, envRet>>
vars == <<write_queue, ret, hist, dbOpen, activeTimers, processingInterval,
          processing, inflight, lastEvent, dispatchLog, closedUse, dispatches,
          kv, tx, kvRet,
          written, scan, pair, call, env, envRet>>

----------------------------------------------------------------------------
(* Bounds of the model *)

MaxEntries == 2        \* rows ever inserted into write_queue by the calls of Spec
AttemptsCap == 3       \* markFailed is not called on a row whose attempts reached this
MaxSent == 2           \* rows ever inserted into write_queue by the producers of SpecProc
MaxLiveSent == 2       \* rows ever inserted into write_queue by the producers of SpecLive
MaxTimers == 2         \* setInterval timers alive at once
MaxInflight == 2       \* suspended batches alive at once
MaxBatch == 2          \* entries of one putMultiple / deleteMultiple call
MaxPages == 5          \* calls of list() in one scan
MaxProviders == 2      \* storage handles, and queue providers, ever built by initializeSqliteEnv
MaxQueued == 11        \* rows ever inserted into write_queue by the producers of SpecBatch

(* Program constants *)

DefaultMaxAttempts == 3   \* max_attempts INTEGER NOT NULL DEFAULT 3
DefaultFetchLimit == 10   \* fetchPending(limit: number = 10)
BatchLimit == 10          \* this.writeQueue.fetchPending(10)

PENDING == 0
PROCESSED == 1
DEAD == 0 - 1

NULL == "NULL"

----------------------------------------------------------------------------
(* JavaScript values and JSON texts that occur as queue messages *)

TxtValid == "{id:1,operation:create,timestamp:t,data:{}}"
TxtIncomplete == "{incomplete:true}"
TxtNull == "null"
TxtGarbage == "not json"
TxtQuoted == "\"not json\""

ValidKeys == {"id", "operation", "timestamp", "data"}

JsObject(keys) == [type |-> "object", text |-> "", keys |-> keys]
JsString(text) == [type |-> "string", text |-> text, keys |-> {}]
JsNull == [type |-> "null", text |-> "", keys |-> {}]

\* JSON.stringify on the values above
JSONstringify(v) ==
  CASE v.type = "null" -> TxtNull
    [] v.type = "string" /\ v.text = TxtGarbage -> TxtQuoted
    [] v.type = "object" /\ v.keys = ValidKeys -> TxtValid
    [] v.type = "object" /\ v.keys = {"incomplete"} -> TxtIncomplete
    [] OTHER -> TxtGarbage

\* JSON.parse: the value, or the SyntaxError it throws
JSONparse(text) ==
  CASE text = TxtValid -> [ok |-> TRUE, value |-> JsObject(ValidKeys), error |-> ""]
    [] text = TxtIncomplete -> [ok |-> TRUE, value |-> JsObject({"incomplete"}), error |-> ""]
    [] text = TxtNull -> [ok |-> TRUE, value |-> JsNull, error |-> ""]
    [] text = TxtQuoted -> [ok |-> TRUE, value |-> JsString(TxtGarbage), error |-> ""]
    [] OTHER -> [ok |-> FALSE, value |-> JsNull, error |-> "Unexpected token"]

\* the messages producers pass to send
SendInputs == {JsObject(ValidKeys), JsObject({"incomplete"}), JsString(TxtGarbage)}

Queues == {"DP1_WRITE_QUEUE", "other-queue"}
ErrMsgs == {"e1", "e2"}

----------------------------------------------------------------------------
(* SqliteQueue: the prepared statements *)

Ids(tbl) == DOMAIN tbl

\* INSERT INTO write_queue (queue_name, message) VALUES (?, ?)
stmtInsert(tbl, name, text) ==
  Append(tbl, [id |-> Len(tbl) + 1, queue_name |-> name, message |-> text,
               processed |-> PENDING, attempts |-> 0,
               max_attempts |-> DefaultMaxAttempts, last_error |-> NULL])

FetchedRow(r) == [id |-> r.id, message |-> r.message, attempts |-> r.attempts]

RECURSIVE SelectRows(_, _, _)
\* rows of tbl from id `from` on that are pending rows of queue `name`, by id
SelectRows(tbl, name, from) ==
  IF from > Len(tbl) THEN <<>>
  ELSE IF tbl[from].processed = PENDING /\ tbl[from].queue_name = name
       THEN <<FetchedRow(tbl[from])>> \o SelectRows(tbl, name, from + 1)
       ELSE SelectRows(tbl, name, from + 1)

\* a statement without its LIMIT
NoLimit(rows, n) == rows

\* LIMIT ?
Limit(rows, n) == IF Len(rows) <= n THEN rows ELSE SubSeq(rows, 1, n)

Reverse(seq) == [i \in 1..Len(seq) |-> seq[Len(seq) + 1 - i]]

\* stmtFetch without "processed = 0"
stmtFetchAnyState(tbl, name, limit) ==
  Limit([i \in 1..Len(SelectSeq(tbl, LAMBDA r : r.queue_name = name)) |->
           FetchedRow(SelectSeq(tbl, LAMBDA r : r.queue_name = name)[i])], limit)

\* stmtFetch with ORDER BY id DESC
stmtFetchDesc(tbl, name, limit) == Limit(Reverse(SelectRows(tbl, name, 1)), limit)

\* SELECT id, message, attempts FROM write_queue
\*   WHERE processed = 0 AND queue_name = ? ORDER BY id ASC LIMIT ?
stmtFetch(tbl, name, limit) == Limit(SelectRows(tbl, name, 1), limit)

\* a statement that flips the flag of the row
stmtMarkProcessedToggles(tbl, id) ==
  IF id \in Ids(tbl)
  THEN [tbl EXCEPT ![id].processed = IF @ = PROCESSED THEN PENDING ELSE PROCESSED]
  ELSE tbl

\* a statement that also clears the attempts of the row
stmtMarkProcessedClearsAttempts(tbl, id) ==
  IF id \in Ids(tbl)
  THEN [tbl EXCEPT ![id].processed = PROCESSED, ![id].attempts = 0]
  ELSE tbl

\* UPDATE write_queue SET processed = 1 WHERE id = ?
stmtMarkProcessed(tbl, id) ==
  IF id \in Ids(tbl) THEN [tbl EXCEPT ![id].processed = PROCESSED] ELSE tbl

\* stmtMarkFailed deciding on the attempts count before the increment
stmtMarkFailedPreIncrement(tbl, error, id) ==
  IF id \in Ids(tbl)
  THEN [tbl EXCEPT ![id].attempts = @ + 1,
                   ![id].last_error = error,
                   ![id].processed = IF tbl[id].attempts >= tbl[id].max_attempts
                                     THEN DEAD ELSE PENDING]
  ELSE tbl

\* UPDATE write_queue SET attempts = attempts + 1, last_error = ?,
\*   processed = CASE WHEN attempts + 1 >= max_attempts THEN -1 ELSE 0 END WHERE id = ?
stmtMarkFailed(tbl, error, id) ==
  IF id \in Ids(tbl)
  THEN [tbl EXCEPT ![id].attempts = @ + 1,
                   ![id].last_error = error,
                   ![id].processed = IF tbl[id].attempts + 1 >= tbl[id].max_attempts
                                     THEN DEAD ELSE PENDING]
  ELSE tbl

----------------------------------------------------------------------------
(* SqliteQueue: the methods, called on the queue object named q *)

NoHist == [failed |-> 0, lastError |-> NULL, processed |-> FALSE]
Void == [op |-> "void", queue |-> "", limit |-> 0, rows |-> <<>>]
\* a send that serializes its argument whatever its type
sendStringified(q, message) ==
  /\ Len(write_queue) < MaxEntries
  /\ write_queue' = stmtInsert(write_queue, q, JSONstringify(message))
  /\ hist' = Append(hist, NoHist)
  /\ ret' = Void

send(q, message) ==
  /\ Len(write_queue) < MaxEntries
  /\ LET messageData == IF message.type = "string" THEN message.text
                        ELSE JSONstringify(message)
     IN write_queue' = stmtInsert(write_queue, q, messageData)
  /\ hist' = Append(hist, NoHist)
  /\ ret' = Void

\* a fetchPending that takes what it returns off the queue (a pop)
fetchPendingPops(q, limit) ==
  LET rows == stmtFetch(write_queue, q, limit)
  IN /\ ret' = [op |-> "fetchPending", queue |-> q, limit |-> limit, rows |-> rows]
     /\ write_queue' = [i \in DOMAIN write_queue |->
                          IF i \in {rows[j].id : j \in DOMAIN rows}
                          THEN [write_queue[i] EXCEPT !.processed = PROCESSED]
                          ELSE write_queue[i]]
     /\ UNCHANGED hist

fetchPending(q, limit) ==
  /\ ret' = [op |-> "fetchPending", queue |-> q, limit |-> limit,
             rows |-> stmtFetch(write_queue, q, limit)]
  /\ UNCHANGED <<write_queue, hist>>

markProcessed(q, id) ==
  /\ write_queue' = stmtMarkProcessed(write_queue, id)
  /\ hist' = IF id \in Ids(hist) THEN [hist EXCEPT ![id].processed = TRUE] ELSE hist
  /\ ret' = Void

markFailed(q, id, error) ==
  /\ id \in Ids(write_queue) => write_queue[id].attempts < AttemptsCap
  /\ write_queue' = stmtMarkFailed(write_queue, error, id)
  /\ hist' = IF id \in Ids(hist)
             THEN [hist EXCEPT ![id].failed = @ + 1, ![id].lastError = error]
             ELSE hist
  /\ ret' = Void

\* the messages the callers of Spec pass to send
ApiInputs == {JsObject(ValidKeys)}
\* the limits passed to fetchPending; DefaultFetchLimit stands for a call without one
FetchLimits == {1, DefaultFetchLimit}
CallIds == 1..(MaxEntries + 1)

----------------------------------------------------------------------------
(* SqliteQueueProvider: the queue processor *)

WriteQueueName == "DP1_WRITE_QUEUE"
RequiredKeys == {"operation", "id", "timestamp"}

\* What processPendingMessages does with a row before any await: JSON.parse, then
\* the check of operation / id / timestamp (keys holds the fields with a truthy value).
MessageCheck(text) ==
  LET p == JSONparse(text) IN
  IF ~p.ok THEN [act |-> "throw", error |-> p.error]
  ELSE IF p.value.type = "null"
       THEN [act |-> "throw", error |-> "Cannot read properties of null"]
  ELSE IF ~(RequiredKeys \subseteq p.value.keys)
       THEN [act |-> "invalid", error |-> "Invalid message format"]
  ELSE [act |-> "dispatch", error |-> ""]

RECURSIVE Advance(_, _)
\* The for loop from its current row up to the next await fetch(...): rows that
\* fail the check are marked failed at once; `rest` starts with the row whose
\* fetch() call is now outstanding, or is empty when the loop ran to its end.
Advance(tbl, rows) ==
  IF rows = <<>> THEN [tbl |-> tbl, rest |-> <<>>]
  ELSE LET c == MessageCheck(Head(rows).message) IN
       IF c.act = "dispatch" THEN [tbl |-> tbl, rest |-> rows]
       ELSE Advance(stmtMarkFailed(tbl, c.error, Head(rows).id), Tail(rows))

\* the results of await fetch(...) followed by response.text() / response.json()
Outcomes == {"success", "successFalse", "httpError", "throw"}

\* an outcome recorded without counting a failed attempt
RecordForgetsFailures(tbl, id, outcome) ==
  IF outcome = "success" THEN stmtMarkProcessed(tbl, id) ELSE tbl

\* the call of markProcessed / markFailed that records an outcome (lines 173-193)
Record(tbl, id, outcome) ==
  CASE outcome = "success" -> stmtMarkProcessed(tbl, id)
    [] outcome = "successFalse" ->
         stmtMarkFailed(tbl, "Processing returned success=false", id)
    [] outcome = "httpError" -> stmtMarkFailed(tbl, "HTTP 500: error", id)
    [] OTHER -> stmtMarkFailed(tbl, "fetch failed", id)

\* the callback without its guard
TickNeverSkips == FALSE

\* if (this.processing) return;
TickSkips == processing

\* the record of a call of fetch() for `row`: its id, how it compares with the id
\* of the call before it, whether both calls belong to one tick, and whether the
\* row had failed before
Dispatched(row, sameTick) ==
  [cur |-> row.id,
   order |-> IF dispatchLog.cur = 0 THEN "first"
             ELSE IF dispatchLog.cur < row.id THEN "up"
             ELSE IF dispatchLog.cur = row.id THEN "same" ELSE "down",
   sameTick |-> sameTick,
   retry |-> row.attempts >= 1]

\* the count of fetch() calls per row is kept up to this value
DispatchCap == DefaultMaxAttempts + 1

NoDispatch == [count |-> 0, succeeded |-> FALSE]
DispatchesOf(d, id) == IF id \in DOMAIN d THEN d[id] ELSE NoDispatch

\* await fetch(`${this.serverUrl}/queues/process-message`, ...) is called for row id
FetchCalled(d, id) ==
  LET old == DispatchesOf(d, id)
      new == [old EXCEPT !.count = IF @ < DispatchCap THEN @ + 1 ELSE @]
  IN [i \in DOMAIN d \cup {id} |-> IF i = id THEN new ELSE d[i]]

\* the call for row id was answered: result.success was true, or not
FetchSettled(d, id, outcome) ==
  IF outcome = "success" THEN [d EXCEPT ![id].succeeded = TRUE] ELSE d

RemoveAt(seq, i) == SubSeq(seq, 1, i - 1) \o SubSeq(seq, i + 1, Len(seq))

\* A producer (a request handler) enqueues a message on getWriteQueue(); max bounds
\* the rows the producers insert over a run.
Produce(max) ==
  /\ UNCHANGED <<kvVars, call, envVars>>
  /\ dbOpen
  /\ Len(write_queue) < max
  /\ \E m \in SendInputs :
       write_queue' = stmtInsert(write_queue, WriteQueueName,
                        IF m.type = "string" THEN m.text ELSE JSONstringify(m))
  /\ lastEvent' = "other"
  /\ UNCHANGED <<ret, hist, dbOpen, activeTimers, processingInterval, processing,
                 inflight, dispatchLog, closedUse, dispatches>>

ProcSend == Produce(MaxSent)
\* the producers of SpecLive enqueue a well-formed message or a text that is no JSON
LiveSend ==
  /\ Produce(MaxLiveSent)
  /\ write_queue'[Len(write_queue')].message \in {TxtValid, TxtGarbage}

\* producers that enqueue well-formed messages only
BatchSend ==
  /\ Produce(MaxQueued)
  /\ write_queue'[Len(write_queue')].message = TxtValid

startProcessing ==
  /\ UNCHANGED <<kvVars, call, envVars>>
  /\ dbOpen
  /\ activeTimers < MaxTimers
  /\ activeTimers' = activeTimers + 1
  /\ processingInterval' = TRUE
  /\ lastEvent' = "other"
  /\ UNCHANGED <<queueVars, dbOpen, processing, inflight, dispatchLog, closedUse,
                 dispatches>>

\* stopProcessing clears the timer that processingInterval holds (if any)
ClearedTimers == IF processingInterval THEN activeTimers - 1 ELSE activeTimers

stopProcessing ==
  /\ UNCHANGED <<kvVars, call, envVars>>
  /\ dbOpen
  /\ activeTimers' = ClearedTimers
  /\ processingInterval' = FALSE
  /\ lastEvent' = "other"
  /\ UNCHANGED <<queueVars, dbOpen, processing, inflight, dispatchLog, closedUse,
                 dispatches>>

\* closeSqliteConnections(): queueProvider.stopProcessing(); storageProvider.close()
closeSqliteConnections ==
  /\ UNCHANGED <<kvVars, call, envVars>>
  /\ dbOpen
  /\ activeTimers' = ClearedTimers
  /\ processingInterval' = FALSE
  /\ dbOpen' = FALSE
  /\ lastEvent' = "other"
  /\ UNCHANGED <<queueVars, processing, inflight, dispatchLog, closedUse, dispatches>>

\* a callback without its finally block: the flag stays set when the tick ends
GuardLeftSet == TRUE

\* finally { this.processing = false }
GuardReleased == FALSE

\* The setInterval callback runs: up to the first await fetch(...), or to its end.
TimerFire ==
  /\ UNCHANGED <<kvVars, call, envVars>>
  /\ activeTimers > 0
  /\ IF TickSkips
     THEN /\ lastEvent' = "tickSkipped"
          /\ UNCHANGED <<queueVars, dbOpen, activeTimers, processingInterval,
                         processing, inflight, dispatchLog, closedUse, dispatches>>
     ELSE /\ Len(inflight) < MaxInflight
          /\ lastEvent' = "tickRan"
          /\ IF ~dbOpen
             THEN \* fetchPending throws; caught by the callback; finally
                  /\ closedUse' = "tick"
                  /\ processing' = GuardReleased
                  /\ UNCHANGED <<queueVars, dbOpen, activeTimers, processingInterval,
                                 inflight, dispatchLog, dispatches>>
             ELSE LET pending == stmtFetch(write_queue, WriteQueueName, BatchLimit)
                      a == Advance(write_queue, pending)
                  IN /\ write_queue' = a.tbl
                     /\ IF a.rest = <<>>
                        THEN /\ processing' = GuardReleased
                             /\ UNCHANGED <<inflight, dispatchLog, dispatches>>
                        ELSE /\ processing' = TRUE
                             /\ inflight' = Append(inflight, a.rest)
                             /\ dispatchLog' = Dispatched(Head(a.rest), FALSE)
                             /\ dispatches' = FetchCalled(dispatches, Head(a.rest).id)
                     /\ UNCHANGED <<ret, hist, dbOpen, activeTimers,
                                    processingInterval, closedUse>>

\* The outstanding fetch() of batch b settles; its outcome is recorded and the loop
\* goes on to the next await fetch(...), or ends (finally: processing = false).
DispatchReturn ==
  \E b \in DOMAIN inflight, outcome \in Outcomes :
    LET rows == inflight[b]
        row == Head(rows)
    IN /\ UNCHANGED <<kvVars, call, envVars>>
       /\ lastEvent' = outcome
       /\ IF ~dbOpen
          THEN \* the statement throws, and so does markFailed in the catch block
               /\ closedUse' = "batch"
               /\ inflight' = RemoveAt(inflight, b)
               /\ processing' = GuardReleased
               /\ dispatches' = FetchSettled(dispatches, row.id, outcome)
               /\ UNCHANGED <<queueVars, dbOpen, activeTimers, processingInterval,
                              dispatchLog>>
          ELSE LET a == Advance(Record(write_queue, row.id, outcome), Tail(rows))
               IN /\ write_queue' = a.tbl
                  /\ IF a.rest = <<>>
                     THEN /\ inflight' = RemoveAt(inflight, b)
                          /\ processing' = GuardReleased
                          /\ dispatches' = FetchSettled(dispatches, row.id, outcome)
                          /\ UNCHANGED dispatchLog
                     ELSE /\ inflight' = [inflight EXCEPT ![b] = a.rest]
                          /\ dispatchLog' = Dispatched(Head(a.rest), TRUE)
                          /\ dispatches' =
                               FetchCalled(FetchSettled(dispatches, row.id, outcome),
                                           Head(a.rest).id)
                          /\ UNCHANGED processing
                  /\ UNCHANGED <<ret, hist, dbOpen, activeTimers, processingInterval,
                                 closedUse>>

\* the dispatch target processes every message it is sent
DispatchSucceeds == DispatchReturn /\ lastEvent' = "success"

----------------------------------------------------------------------------
(* The SqliteQueue methods with a record of the call made *)

NoCall == [op |-> "none", queue |-> "", id |-> 0, arg |-> JsNull, again |-> FALSE]

\* the method called, the queue object, the id passed (for send: the id of the
\* row inserted), the argument of send, and for markProcessed whether the row
\* was Processed before the call
Called(op, q, id, arg, again) ==
  [op |-> op, queue |-> q, id |-> id, arg |-> arg, again |-> again]

\* the messages passed to send: a structured message and a string
CallInputs == {JsObject(ValidKeys), JsString(TxtGarbage)}
CallErrMsgs == {"e1"}

CallSend ==
  \E q \in Queues, m \in CallInputs :
    /\ send(q, m)
    /\ call' = Called("send", q, Len(write_queue) + 1, m, FALSE)
    /\ UNCHANGED <<procVars, kvVars, envVars>>

CallMarkProcessed ==
  \E q \in {WriteQueueName}, id \in CallIds :
    /\ markProcessed(q, id)
    /\ call' = Called("markProcessed", q, id, JsNull,
                       id \in Ids(write_queue) /\ write_queue[id].processed = PROCESSED)
    /\ UNCHANGED <<procVars, kvVars, envVars>>

CallMarkFailed ==
  \E q \in {WriteQueueName}, id \in CallIds, e \in CallErrMsgs :
    /\ markFailed(q, id, e)
    /\ call' = Called("markFailed", q, id, JsNull, FALSE)
    /\ UNCHANGED <<procVars, kvVars, envVars>>

----------------------------------------------------------------------------
(* SqliteKVStorage: keys, tables and prepared statements *)

\* SqliteStorageProvider builds three tables in the same way (playlists, channels,
\* playlist_items); two of them are enough to tell one namespace from another
Namespaces == {"playlists", "channels"}

\* keys are strings, written as sequences of characters ('' is a key like any other)
KVKeys == {<<>>, <<"a">>, <<"A", "b">>}
\* the keys the callers of SpecKV pass
CallKeys == {<<"a">>, <<"A", "b">>}
KVValues == {"v1", "v2"}
Absent == "<absent>"

EmptyTable == [k \in KVKeys |-> Absent]

\* SELECT value FROM "t" WHERE key = ?          (Absent: no row)
stmtGet(t, key) == t[key]
\* a write that leaves only its own row in the table
stmtPutTruncates(t, key, value) == [k \in DOMAIN t |-> IF k = key THEN value ELSE Absent]

\* INSERT OR REPLACE INTO "t" (key, value) VALUES (?, ?)
stmtPut(t, key, value) == [t EXCEPT ![key] = value]
\* a delete that empties the table
stmtDeleteClears(t, key) == [k \in DOMAIN t |-> Absent]

\* DELETE FROM "t" WHERE key = ?
stmtDelete(t, key) == [t EXCEPT ![key] = Absent]

CharCode(c) ==
  CASE c = "%" -> 37 [] c = "A" -> 65 [] c = "B" -> 66 [] c = "_" -> 95
    [] c = "a" -> 97 [] c = "b" -> 98 [] OTHER -> 0

\* LIKE folds the case of ASCII letters
Fold(c) == CASE c = "A" -> "a" [] c = "B" -> "b" [] OTHER -> c

RECURSIVE Like(_, _)
\* s LIKE pattern: % matches any run of characters, _ any one character
Like(pattern, s) ==
  IF pattern = <<>> THEN s = <<>>
  ELSE IF Head(pattern) = "%"
       THEN Like(Tail(pattern), s) \/ (s # <<>> /\ Like(pattern, Tail(s)))
       ELSE /\ s # <<>>
            /\ Head(pattern) = "_" \/ Fold(Head(pattern)) = Fold(Head(s))
            /\ Like(Tail(pattern), Tail(s))

RECURSIVE KeyLess(_, _)
\* a < b in the BINARY collation of the key column
KeyLess(a, b) ==
  IF b = <<>> THEN FALSE
  ELSE IF a = <<>> THEN TRUE
  ELSE IF Head(a) = Head(b) THEN KeyLess(Tail(a), Tail(b))
  ELSE CharCode(Head(a)) < CharCode(Head(b))

RECURSIVE OrderByKey(_)
\* the keys of a set in ascending order
OrderByKey(keys) ==
  IF keys = {} THEN <<>>
  ELSE LET least == CHOOSE k \in keys : \A o \in keys \ {k} : KeyLess(k, o)
       IN <<least>> \o OrderByKey(keys \ {least})

DefaultListLimit == 1000
\* options.cursor / result.cursor undefined
NoCursor == <<"<undefined>">>
\* if (options?.cursor): undefined and '' are falsy
Truthy(cursor) == cursor # NoCursor /\ cursor # <<>>

\* a page that says of every result that more may follow
hasMoreWhenAny(rows, limit) == Len(rows) > 0

\* const hasMore = rows.length === limit
hasMore(rows, limit) == Len(rows) = limit

\* SELECT key FROM "t" WHERE key LIKE ? [AND key > ?] ORDER BY key ASC LIMIT ?
\* with the defaults of list(): prefix || '', limit || 1000, no cursor when falsy
listQuery(t, prefix, cursor, limit) ==
  LET matching == {k \in KVKeys : /\ t[k] # Absent
                                  /\ Like(prefix \o <<"%">>, k)
                                  /\ ~Truthy(cursor) \/ KeyLess(cursor, k)}
      lim == IF limit = 0 THEN DefaultListLimit ELSE limit
      rows == Limit(OrderByKey(matching), lim)
      more == hasMore(rows, lim)
  IN [keys |-> rows, list_complete |-> ~more,
      cursor |-> IF more /\ Len(rows) > 0 THEN rows[Len(rows)] ELSE NoCursor]

----------------------------------------------------------------------------
(* SqliteKVStorage: the methods, called on the table of namespace ns *)

Entries == [key : CallKeys, value : KVValues]
DeleteEntry(key) == [key |-> key, value |-> Absent]
\* the statement a batch runs for an entry: stmtPut.run(key, value) in putMultiple,
\* stmtDelete.run(key) in deleteMultiple
stmtRun(t, e) ==
  IF e.value = Absent THEN stmtDelete(t, e.key) ELSE stmtPut(t, e.key, e.value)
BatchKeys(batch) == [i \in DOMAIN batch |-> batch[i].key]
UniqueKeys(batch) == \A i, j \in DOMAIN batch : batch[i].key = batch[j].key => i = j

PutBatches == UNION {[1..n -> Entries] : n \in 0..MaxBatch}
DeleteBatches == UNION {[1..n -> {DeleteEntry(k) : k \in CallKeys}] : n \in 0..MaxBatch}

NoTx == [open |-> FALSE, op |-> "", ns |-> "", todo |-> <<>>, batch |-> <<>>,
         snapshot |-> EmptyTable]

\* some but not all statements of the executing transaction have been applied
PartiallyApplied ==
  tx.open /\ tx.todo # <<>> /\ Len(tx.todo) < Len(tx.batch) /\ kv[tx.ns] # tx.snapshot

Returned(op, ns, batch, failed, threw, value, listed) ==
  [op |-> op, ns |-> ns, batch |-> batch, failed |-> failed, threw |-> threw,
   partial |-> PartiallyApplied, value |-> value, listed |-> listed]

NoList == [keys |-> <<>>, list_complete |-> TRUE, cursor |-> NoCursor]
NoRet == [op |-> "none", ns |-> "", batch |-> <<>>, failed |-> <<>>, threw |-> FALSE,
          partial |-> FALSE, value |-> {}, listed |-> NoList]

\* a handler calling into the storage as if the transaction function yielded
HandlerMayRunAnytime == TRUE

\* db.transaction(fn)(items) runs BEGIN, fn and COMMIT in one synchronous call:
\* no other handler and no timer callback runs before it has returned
HandlerMayRun == ~tx.open

\* statement.run / statement.get throws (table dropped, disk full, NOT NULL, ...)
EngineFails == BOOLEAN

\* every storage object of the provider on one table
sharedTableName(ns) == "playlists"

\* new SqliteKVStorage(this.db, 'playlists' | 'channels' | ...): this.tableName
tableName(ns) == ns

RECURSIVE ApplyBatch(_, _)
\* what the calls of a batch, taken one after the other, last wrote to each key
ApplyBatch(w, batch) ==
  IF batch = <<>> THEN w
  ELSE ApplyBatch([w EXCEPT ![Head(batch).key] = Head(batch).value], Tail(batch))

get(ns, key) ==
  /\ HandlerMayRun
  /\ UNCHANGED <<queueVars, procVars, call, envVars>>
  /\ kvRet' = Returned("get", ns, <<>>, <<>>, FALSE,
                       {<<key, stmtGet(kv[tableName(ns)], key)>>}, NoList)
  /\ UNCHANGED <<kv, tx, written>>

\* a getMultiple that reports the keys it did not find as null
getMultipleWithNulls(ns, keys, fails) ==
  /\ HandlerMayRun
  /\ UNCHANGED <<queueVars, procVars, call, envVars>>
  /\ kvRet' = Returned("getMultiple", ns, <<>>, <<>>, FALSE,
                       {<<k, stmtGet(kv[tableName(ns)], k)>> : k \in keys}, NoList)
                 @@ [args |-> keys, failing |-> fails]
  /\ UNCHANGED <<kv, tx, written>>

\* keys.length === 0 returns the empty map before any statement is prepared;
\* otherwise SELECT key, value ... WHERE key IN (...) runs (and may throw), and
\* each row found is set in the map
getMultiple(ns, keys, fails) ==
  /\ HandlerMayRun
  /\ UNCHANGED <<queueVars, procVars, call, envVars>>
  /\ kvRet' = (IF keys = {}
               THEN Returned("getMultiple", ns, <<>>, <<>>, FALSE, {}, NoList)
               ELSE IF fails
               THEN Returned("getMultiple", ns, <<>>, <<>>, TRUE, {}, NoList)
               ELSE Returned("getMultiple", ns, <<>>, <<>>, FALSE,
                             {<<k, stmtGet(kv[tableName(ns)], k)>> :
                                k \in {x \in keys : kv[tableName(ns)][x] # Absent}},
                             NoList))
                 @@ [args |-> keys, failing |-> fails]
  /\ UNCHANGED <<kv, tx, written>>

\* the result of list together with the options it was called with
ListReturned(ns, prefix, cursor, limit) ==
  Returned("list", ns, <<>>, <<>>, FALSE, {},
           listQuery(kv[tableName(ns)], prefix, cursor, limit))
    @@ [args |-> [prefix |-> prefix, cursor |-> cursor, limit |-> limit]]

list(ns, prefix, cursor, limit) ==
  /\ HandlerMayRun
  /\ UNCHANGED <<queueVars, procVars, call, envVars>>
  /\ kvRet' = ListReturned(ns, prefix, cursor, limit)
  /\ UNCHANGED <<kv, tx, written>>

put(ns, key, value, fails) ==
  /\ HandlerMayRun
  /\ UNCHANGED <<queueVars, procVars, call, envVars>>
  /\ kv' = IF fails THEN kv ELSE [kv EXCEPT ![tableName(ns)] = stmtPut(@, key, value)]
  /\ written' = IF fails THEN written ELSE [written EXCEPT ![ns][key] = value]
  /\ kvRet' = Returned("put", ns, <<[key |-> key, value |-> value]>>, <<>>, fails, {}, NoList)
  /\ UNCHANGED tx

delete(ns, key, fails) ==
  /\ HandlerMayRun
  /\ UNCHANGED <<queueVars, procVars, call, envVars>>
  /\ kv' = IF fails THEN kv ELSE [kv EXCEPT ![tableName(ns)] = stmtDelete(@, key)]
  /\ written' = IF fails THEN written ELSE [written EXCEPT ![ns][key] = Absent]
  /\ kvRet' = Returned("delete", ns, <<DeleteEntry(key)>>, <<>>, fails, {}, NoList)
  /\ UNCHANGED tx

\* putMultiple / deleteMultiple up to the call of transaction(...): the empty
\* batch returns [], a batch of one is awaited as a plain put / delete (whose
\* exception rejects the call), a longer batch opens a transaction
batchCall(op, ns, batch, fails) ==
  /\ HandlerMayRun
  /\ UNCHANGED <<queueVars, procVars, call, envVars>>
  /\ IF Len(batch) = 0
     THEN /\ kvRet' = Returned(op, ns, batch, <<>>, FALSE, {}, NoList)
          /\ UNCHANGED <<kv, tx, written>>
     ELSE IF Len(batch) = 1
     THEN /\ kv' = IF fails THEN kv
                   ELSE [kv EXCEPT ![tableName(ns)] = stmtRun(@, batch[1])]
          /\ written' = IF fails THEN written
                        ELSE [written EXCEPT ![ns][batch[1].key] = batch[1].value]
          /\ kvRet' = Returned(op, ns, batch, <<>>, fails, {}, NoList)
          /\ UNCHANGED tx
     ELSE /\ tx' = [open |-> TRUE, op |-> op, ns |-> ns, todo |-> batch,
                    batch |-> batch, snapshot |-> kv[tableName(ns)]]
          /\ kvRet' = NoRet
          /\ UNCHANGED <<kv, written>>

\* the next stmtPut.run / stmtDelete.run of the transaction function succeeds
txStmt ==
  /\ UNCHANGED <<queueVars, procVars, call, envVars>>
  /\ tx.open /\ tx.todo # <<>>
  /\ kv' = [kv EXCEPT ![tableName(tx.ns)] = stmtRun(@, Head(tx.todo))]
  /\ tx' = [tx EXCEPT !.todo = Tail(@)]
  /\ UNCHANGED <<kvRet, written>>

\* what a rolled back transaction leaves of the statements it had applied
RollbackKeepsWrites(table, snapshot) == table

\* ROLLBACK: the table is as it was at BEGIN
Rollback(table, snapshot) == snapshot

\* the next statement throws: better-sqlite3 rolls back and rethrows, the catch
\* block returns every key of the batch
txThrow ==
  /\ UNCHANGED <<queueVars, procVars, call, envVars>>
  /\ tx.open /\ tx.todo # <<>>
  /\ kv' = [kv EXCEPT ![tableName(tx.ns)] = Rollback(@, tx.snapshot)]
  /\ kvRet' = Returned(tx.op, tx.ns, tx.batch, BatchKeys(tx.batch), FALSE, {}, NoList)
  /\ tx' = NoTx
  /\ UNCHANGED written

\* COMMIT, and return []
txCommit ==
  /\ UNCHANGED <<queueVars, procVars, call, envVars>>
  /\ tx.open /\ tx.todo = <<>>
  /\ kvRet' = Returned(tx.op, tx.ns, tx.batch, <<>>, FALSE, {}, NoList)
  /\ written' = [written EXCEPT ![tx.ns] = ApplyBatch(@, tx.batch)]
  /\ tx' = NoTx
  /\ UNCHANGED kv

NoScan == [phase |-> "idle", prefix |-> <<>>, limit |-> 0, cursor |-> NoCursor,
           pages |-> <<>>, calls |-> 0, start |-> {}, forward |-> TRUE]

Callers == {"a", "b"}
NoPair == [phase |-> "idle", batch |-> [c \in Callers |-> <<>>],
           status |-> [c \in Callers |-> "ready"], failed |-> [c \in Callers |-> <<>>]]

KVInit ==
  /\ kv = [ns \in Namespaces |-> EmptyTable]
  /\ tx = NoTx
  /\ kvRet = NoRet
  /\ written = [ns \in Namespaces |-> EmptyTable]
  /\ scan = NoScan
  /\ pair = NoPair

TxStmt == txStmt /\ UNCHANGED <<scan, pair>>
TxThrow == txThrow /\ UNCHANGED <<scan, pair>>
TxCommit == txCommit /\ UNCHANGED <<scan, pair>>

ListPrefixes == {<<>>, <<"a">>}
ListCursors == {NoCursor, <<"A", "b">>}
ListLimits == {0, 1}

Get == \E ns \in Namespaces, k \in CallKeys : get(ns, k) /\ UNCHANGED <<scan, pair>>
GetMultiple ==
  \E ns \in Namespaces, ks \in SUBSET CallKeys, f \in EngineFails :
    getMultiple(ns, ks, f) /\ UNCHANGED <<scan, pair>>
List ==
  \E ns \in Namespaces, p \in ListPrefixes, c \in ListCursors, n \in ListLimits :
    list(ns, p, c, n) /\ UNCHANGED <<scan, pair>>
Put ==
  \E ns \in Namespaces, k \in CallKeys, v \in KVValues, f \in EngineFails :
    put(ns, k, v, f) /\ UNCHANGED <<scan, pair>>
Delete ==
  \E ns \in Namespaces, k \in CallKeys, f \in EngineFails :
    delete(ns, k, f) /\ UNCHANGED <<scan, pair>>
PutMultiple ==
  \E ns \in Namespaces, b \in PutBatches, f \in EngineFails :
    batchCall("putMultiple", ns, b, f) /\ UNCHANGED <<scan, pair>>
DeleteMultiple ==
  \E ns \in Namespaces, b \in DeleteBatches, f \in EngineFails :
    batchCall("deleteMultiple", ns, b, f) /\ UNCHANGED <<scan, pair>>

----------------------------------------------------------------------------
(* A caller that pages through list() on the playlists table while other
   handlers insert keys *)

ScanNs == "playlists"
ScanPrefixes == {<<>>, <<"a">>, <<"_">>}
ScanLimits == {0, 1, 2}

Present(t) == {k \in KVKeys : t[k] # Absent}

\* the caller starts a scan: it has no cursor yet
ScanStart ==
  /\ scan.phase \in {"idle", "done"}
  /\ \E p \in ScanPrefixes, n \in ScanLimits :
       scan' = [phase |-> "open", prefix |-> p, limit |-> n, cursor |-> NoCursor,
                pages |-> <<>>, calls |-> 0, start |-> Present(kv[tableName(ScanNs)]),
                forward |-> TRUE]
  /\ UNCHANGED <<queueVars, procVars, call, envVars, kv, tx, kvRet, written, pair>>

\* the caller asks for the next page with the cursor of the page before, and
\* stops at a page whose list_complete is true
ScanPage ==
  /\ scan.phase = "open"
  /\ scan.calls < MaxPages
  /\ list(ScanNs, scan.prefix, scan.cursor, scan.limit)
  /\ LET page == kvRet'.listed
     IN scan' = [scan EXCEPT
                   !.pages = @ \o page.keys,
                   !.calls = @ + 1,
                   !.cursor = page.cursor,
                   !.phase = IF page.list_complete THEN "done" ELSE "open",
                   !.forward = @ /\ (scan.cursor = NoCursor \/
                                      \A i \in DOMAIN page.keys :
                                        KeyLess(scan.cursor, page.keys[i]))]
  /\ UNCHANGED pair

\* another handler inserts or overwrites a key of the table
ScanPut ==
  \E k \in KVKeys, v \in KVValues : put(ScanNs, k, v, FALSE) /\ UNCHANGED <<scan, pair>>

----------------------------------------------------------------------------
(* Two request handlers that call putMultiple on one namespace at the same
   time, with batches over disjoint keys *)

PairNs == "channels"
\* caller a writes v1 to its keys, caller b writes v2 to its own
PairValue(c) == IF c = "a" THEN "v1" ELSE "v2"
PairBatches(c) ==
  UNION {[1..n -> [key : KVKeys, value : {PairValue(c)}]] : n \in 1..MaxBatch}
KeysOf(batch) == {batch[i].key : i \in DOMAIN batch}

\* both calls are about to be made
PairStart ==
  /\ pair.phase \in {"idle", "done"}
  /\ \E A \in PairBatches("a"), B \in PairBatches("b") :
       /\ KeysOf(A) \cap KeysOf(B) = {}
       /\ pair' = [phase |-> "open", batch |-> [c \in Callers |-> IF c = "a" THEN A ELSE B],
                   status |-> [c \in Callers |-> "ready"],
                   failed |-> [c \in Callers |-> <<>>]]
  /\ UNCHANGED <<queueVars, procVars, call, envVars, kv, tx, kvRet, written, scan>>

\* the phase once the call of c has returned
PairPhase(c) == IF \A o \in Callers \ {c} : pair.status[o] = "returned" THEN "done" ELSE "open"

\* caller c calls putMultiple: a batch of one is written and the call returns,
\* a longer batch begins its transaction
PairCall ==
  \E c \in Callers :
    /\ pair.phase = "open" /\ pair.status[c] = "ready"
    /\ batchCall("putMultiple", PairNs, pair.batch[c], FALSE)
    /\ pair' = IF Len(pair.batch[c]) = 1
               THEN [pair EXCEPT !.status[c] = "returned", !.failed[c] = kvRet'.failed,
                                 !.phase = PairPhase(c)]
               ELSE [pair EXCEPT !.status[c] = "running"]
    /\ UNCHANGED scan

\* the transaction of the running call commits and the call returns
PairCommit ==
  \E c \in Callers :
    /\ pair.status[c] = "running"
    /\ txCommit
    /\ pair' = [pair EXCEPT !.status[c] = "returned", !.failed[c] = kvRet'.failed,
                            !.phase = PairPhase(c)]
    /\ UNCHANGED scan

----------------------------------------------------------------------------
(* env/sqlite.ts: the providers shared by the requests *)

\* bindings.SQLITE_DB_PATH: absent, empty, or a path
NoPath == "<undefined>"
EnvPaths == {NoPath, "", ":memory:", "./data/dp1-feed.db"}

ConfigError == "Missing required SQLite configuration: SQLITE_DB_PATH"

\* a check that takes only an absent path for a missing one
PathMissingWhenAbsent(path) == path = NoPath

\* if (!bindings.SQLITE_DB_PATH): undefined and '' are falsy
PathMissing(path) == path \in {NoPath, ""}

\* let storageProvider = null, queueProvider = null (0 stands for null, i > 0 for
\* the i-th object built); dbs and procs are the SqliteStorageProvider handles
\* and the SqliteQueueProvider objects built so far; first is what the first
\* initializeSqliteEnv that returned since the last close returned
NoFirst == [storage |-> 0, queue |-> 0]
NoEnv == [storageProvider |-> 0, queueProvider |-> 0, dbs |-> <<>>, procs |-> <<>>,
          first |-> NoFirst]
NoEnvRet == [op |-> "none", path |-> NoPath, threw |-> "", storage |-> 0, queue |-> 0]

\* new SqliteStorageProvider({dbPath}): new Database(path) throws (nothing is
\* opened), or a pragma / CREATE TABLE after it throws (the handle is open and
\* nothing holds it), or the provider is built
StorageOutcomes == {"ok", "openThrows", "setupThrows"}
\* new SqliteQueueProvider(db): the CREATE TABLE / prepare of SqliteQueue may throw
QueueOutcomes == {"ok", "throws"}

EnvThrew(path, e, msg) ==
  [op |-> "initializeSqliteEnv", path |-> path, threw |-> msg,
   storage |-> e.storageProvider, queue |-> e.queueProvider]

initializeSqliteEnv(path, so, qo) ==
  /\ UNCHANGED <<queueVars, procVars, kvVars, call>>
  /\ env.storageProvider = 0 => Len(env.dbs) < MaxProviders
  /\ env.queueProvider = 0 => Len(env.procs) < MaxProviders
  /\ IF PathMissing(path)
     THEN /\ envRet' = EnvThrew(path, env, ConfigError)
          /\ UNCHANGED env
     ELSE IF env.storageProvider = 0 /\ so = "openThrows"
     THEN /\ envRet' = EnvThrew(path, env, "SqliteError")
          /\ UNCHANGED env
     ELSE IF env.storageProvider = 0 /\ so = "setupThrows"
     THEN /\ env' = [env EXCEPT !.dbs = Append(@, [open |-> TRUE, path |-> path])]
          /\ envRet' = EnvThrew(path, env, "SqliteError")
     ELSE LET e1 == IF env.storageProvider # 0 THEN env
                    ELSE [env EXCEPT !.dbs = Append(@, [open |-> TRUE, path |-> path]),
                                     !.storageProvider = Len(env.dbs) + 1]
          IN IF e1.queueProvider = 0 /\ qo = "throws"
             THEN /\ env' = e1
                  /\ envRet' = EnvThrew(path, e1, "SqliteError")
             ELSE LET e2 == IF e1.queueProvider # 0 THEN e1
                            ELSE [e1 EXCEPT
                                    !.procs = Append(@, [db |-> e1.storageProvider,
                                                         timers |-> 0, interval |-> FALSE]),
                                    !.queueProvider = Len(e1.procs) + 1]
                      result == [storage |-> e2.storageProvider, queue |-> e2.queueProvider]
                  IN /\ env' = [e2 EXCEPT !.first = IF @ = NoFirst THEN result ELSE @]
                     /\ envRet' = [op |-> "initializeSqliteEnv", path |-> path,
                                   threw |-> "", storage |-> result.storage,
                                   queue |-> result.queue]

InitializeSqliteEnv ==
  \E path \in EnvPaths, so \in StorageOutcomes, qo \in QueueOutcomes :
    initializeSqliteEnv(path, so, qo)

\* getSqliteQueueProvider()?.startProcessing(serverUrl, secret): one more timer
\* on the module's queue provider, held in its processingInterval
StartQueueProcessor ==
  /\ UNCHANGED <<queueVars, procVars, kvVars, call>>
  /\ env.queueProvider # 0
  /\ env.procs[env.queueProvider].timers < MaxTimers
  /\ env' = [env EXCEPT !.procs[env.queueProvider].timers = @ + 1,
                        !.procs[env.queueProvider].interval = TRUE]
  /\ envRet' = [NoEnvRet EXCEPT !.op = "startProcessing"]

\* getSqliteQueueProvider(): the module's queue provider, or null
getSqliteQueueProvider == env.queueProvider

\* a close that closes the handle and keeps the module's queue provider
CloseKeepsQueueProvider ==
  /\ UNCHANGED <<queueVars, procVars, kvVars, call>>
  /\ LET st == env.storageProvider
     IN env' = [env EXCEPT !.dbs = IF st = 0 THEN @ ELSE [@ EXCEPT ![st].open = FALSE],
                           !.storageProvider = 0,
                           !.first = NoFirst]
  /\ envRet' = [NoEnvRet EXCEPT !.op = "closeSqliteConnections"]

\* closeSqliteConnections() on the module's providers: stopProcessing() clears the
\* timer the queue provider holds, close() closes the handle, both become null
CloseSqliteConnections ==
  /\ UNCHANGED <<queueVars, procVars, kvVars, call>>
  /\ LET q == env.queueProvider
         st == env.storageProvider
         e1 == IF q = 0 THEN env
               ELSE [env EXCEPT
                       !.procs[q].timers = IF env.procs[q].interval THEN @ - 1 ELSE @,
                       !.procs[q].interval = FALSE,
                       !.queueProvider = 0]
         e2 == IF st = 0 THEN e1
               ELSE [e1 EXCEPT !.dbs[st].open = FALSE, !.storageProvider = 0]
     IN env' = [e2 EXCEPT !.first = NoFirst]
  /\ envRet' = [NoEnvRet EXCEPT !.op = "closeSqliteConnections"]

----------------------------------------------------------------------------
(* Initial state and specifications *)

QueueInit ==
  /\ write_queue = <<>>
  /\ ret = Void
  /\ hist = <<>>

ProcInit ==
  /\ dbOpen = TRUE
  /\ activeTimers = 0
  /\ processingInterval = FALSE
  /\ processing = FALSE
  /\ inflight = <<>>
  /\ lastEvent = "other"
  /\ dispatchLog = [cur |-> 0, order |-> "none", sameTick |-> FALSE, retry |-> FALSE]
  /\ closedUse = "no"
  /\ dispatches = <<>>

EnvInit ==
  /\ env = NoEnv
  /\ envRet = NoEnvRet

Init == QueueInit /\ ProcInit /\ KVInit /\ EnvInit /\ call = NoCall

Send == \E q \in Queues, m \in ApiInputs : send(q, m) /\ UNCHANGED <<procVars, kvVars, call, envVars>>
FetchPending == \E q \in Queues, n \in FetchLimits : fetchPending(q, n) /\ UNCHANGED <<procVars, kvVars, call, envVars>>
MarkProcessed == \E q \in Queues, id \in CallIds : markProcessed(q, id) /\ UNCHANGED <<procVars, kvVars, call, envVars>>
MarkFailed ==
  \E q \in Queues, id \in CallIds, e \in ErrMsgs : markFailed(q, id, e) /\ UNCHANGED <<procVars, kvVars, call, envVars>>

Next == Send \/ FetchPending \/ MarkProcessed \/ MarkFailed

Spec == Init /\ [][Next]_vars

NextProc ==
  \/ ProcSend
  \/ startProcessing
  \/ stopProcessing
  \/ closeSqliteConnections
  \/ TimerFire
  \/ DispatchReturn

SpecProc == Init /\ [][NextProc]_vars

\* The processor stays Running: producers, startProcessing, the timer and the
\* dispatch target only.  setInterval keeps firing and every fetch() settles.
NextLive == LiveSend \/ startProcessing \/ TimerFire \/ DispatchReturn

SpecLive ==
  Init /\ [][NextLive]_vars /\ WF_vars(TimerFire) /\ WF_vars(DispatchReturn)

\* A backlog longer than one batch: producers of well-formed messages, a target
\* that processes every message, and the running processor.
NextBatch == BatchSend \/ startProcessing \/ TimerFire \/ DispatchSucceeds

SpecBatch == Init /\ [][NextBatch]_vars

\* Request handlers on the key-value tables; a transaction runs statement by
\* statement while it holds the JavaScript thread.
NextKV ==
  \/ Get \/ GetMultiple \/ List
  \/ Put \/ Delete
  \/ PutMultiple \/ DeleteMultiple
  \/ TxStmt \/ TxThrow \/ TxCommit

SpecKV == Init /\ [][NextKV]_vars

\* One caller paging through the playlists table, other handlers inserting keys
\* between its pages (no key is deleted).
NextScan == ScanStart \/ ScanPage \/ ScanPut

SpecScan == Init /\ [][NextScan]_vars

\* Two concurrent putMultiple calls on one namespace; the storage does not fail.
NextPair == PairStart \/ PairCall \/ TxStmt \/ PairCommit

SpecPair == Init /\ [][NextPair]_vars

\* The module env/sqlite.ts: requests initialize the environment, the server
\* starts the queue processor, shutdown closes the connections.
NextEnv == InitializeSqliteEnv \/ StartQueueProcessor \/ CloseSqliteConnections

SpecEnv == Init /\ [][NextEnv]_vars

\* The SqliteQueue API called in any order, each call recorded.
NextCalls == CallSend \/ CallMarkProcessed \/ CallMarkFailed

SpecCalls == Init /\ [][NextCalls]_vars

----------------------------------------------------------------------------
(* Claims about SqliteQueue (Spec) *)

Terminal(r) == r.processed \in {PROCESSED, DEAD}
FetchedIds(rows) == {rows[j].id : j \in DOMAIN rows}

\* C1: Processed and Dead are absorbing: once a row is Processed or Dead, no call
\* of send, fetchPending, markProcessed or markFailed changes its state.
C1_Absorbing ==
  [][\A i \in Ids(write_queue) :
       Terminal(write_queue[i]) => write_queue'[i].processed = write_queue[i].processed]_vars

\* C2: a row on which only markFailed was called, k times, has attempts = k and
\* last_error = the message of the last call; for k < max_attempts it is Pending
\* and fetchPending returns it, for k >= max_attempts it is Dead and fetchPending
\* does not return it.
C2_RetryCeiling ==
  \A i \in Ids(write_queue) :
    ~hist[i].processed =>
      LET r == write_queue[i]
          k == hist[i].failed
          refetch == FetchedIds(stmtFetch(write_queue, r.queue_name, DefaultFetchLimit))
          returned == ret.op = "fetchPending" /\ i \in FetchedIds(ret.rows)
      IN /\ r.attempts = k
         /\ r.last_error = hist[i].lastError
         /\ k < r.max_attempts => r.processed = PENDING /\ i \in refetch
         /\ k >= r.max_attempts => r.processed = DEAD /\ i \notin refetch /\ ~returned

\* a row failed max_attempts times is Dead and left out of a fetchPending that
\* returns a row failed max_attempts - 1 times
C2_Witness ==
  \E i, j \in Ids(write_queue) :
    /\ ~hist[i].processed /\ hist[i].failed = DefaultMaxAttempts
    /\ write_queue[i].processed = DEAD
    /\ ~hist[j].processed /\ hist[j].failed = DefaultMaxAttempts - 1
    /\ ret.op = "fetchPending" /\ FetchedIds(ret.rows) = {j}
    /\ write_queue[i].queue_name = ret.queue

\* C3: fetchPending returns only rows whose state is Pending.
C3_FetchOnlyPending ==
  ret.op = "fetchPending" =>
    \A j \in DOMAIN ret.rows :
      /\ ret.rows[j].id \in Ids(write_queue)
      /\ write_queue[ret.rows[j].id].processed = PENDING

\* fetchPending returned a row while its queue holds a Processed or Dead row
C3_Witness ==
  /\ ret.op = "fetchPending" /\ ret.rows # <<>>
  /\ \E i \in Ids(write_queue) :
       write_queue[i].queue_name = ret.queue /\ Terminal(write_queue[i])

----------------------------------------------------------------------------
(* Claims about the queue processor (SpecProc, SpecLive) *)

\* C4: over the whole run the calls of fetch() are in non-decreasing id order.
C4_FifoWholeRun == dispatchLog.order # "down"

\* C4 as amended: within one tick the calls of fetch() are in strictly increasing
\* id order; a call whose id is not above the id of the call before it is the first
\* call of a later tick and retries a row that failed before.
C4_FifoPerTick ==
  /\ dispatchLog.sameTick => dispatchLog.order = "up"
  /\ dispatchLog.order \in {"down", "same"} => dispatchLog.retry /\ ~dispatchLog.sameTick

\* a retry dispatched after a row with a larger id
C4_Witness == dispatchLog.order = "down" /\ dispatchLog.retry

\* C5: at most one batch is in flight, and a timer tick that fires while a batch
\* is in flight fetches nothing, dispatches nothing and marks nothing.
C5_OneBatch ==
  /\ [](Len(inflight) <= 1)
  /\ [][(inflight # <<>> /\ lastEvent' \in {"tickSkipped", "tickRan"}) =>
          /\ lastEvent' = "tickSkipped"
          /\ UNCHANGED <<write_queue, inflight, dispatchLog, processing>>]_vars

\* a tick was skipped while a batch is in flight and two timers are armed
C5_Witness ==
  lastEvent = "tickSkipped" /\ Len(inflight) = 1 /\ activeTimers = 2 /\ processing

PendingRow(i) == i \in Ids(write_queue) /\ write_queue[i].processed = PENDING
TerminalRow(i) == i \in Ids(write_queue) /\ Terminal(write_queue[i])

C7_StopHalts == lastEvent = "tickRan" => processingInterval

\* C8: closeSqliteConnections stops the processor before it closes the handle, and
\* no in-flight batch runs a queue statement on the closed handle.
C8_ShutdownOrdering == ~dbOpen => ~processingInterval /\ closedUse # "batch"

----------------------------------------------------------------------------
(* Claims about SqliteKVStorage (SpecKV) *)

\* C9: putMultiple is all-or-nothing for every non-empty batch of unique keys, a
\* batch of one entry included: it does not throw, and either it returns [] and
\* get on each key of the batch returns the batch value, or it returns exactly the
\* keys of the batch and the table is as it was before the call.
C9_AllOrNothing ==
  [][LET r == kvRet'
         before == IF tx.open THEN tx.snapshot ELSE kv[r.ns]
     IN (r.op = "putMultiple" /\ r.batch # <<>> /\ UniqueKeys(r.batch)) =>
          /\ ~r.threw
          /\ \/ /\ r.failed = <<>>
                /\ \A i \in DOMAIN r.batch :
                     stmtGet(kv'[r.ns], r.batch[i].key) = r.batch[i].value
             \/ /\ r.failed = BatchKeys(r.batch)
                /\ kv'[r.ns] = before]_vars

\* C10: no get, getMultiple or list returns while some but not all statements of
\* a putMultiple or deleteMultiple transaction have been applied.
C10_NoPartialRead == kvRet.op \in {"get", "getMultiple", "list"} => ~kvRet.partial

\* a transaction of putMultiple has changed its table and has statements left
C10_Witness == PartiallyApplied /\ tx.op = "putMultiple" /\ UniqueKeys(tx.batch)

----------------------------------------------------------------------------
(* Claims about list (SpecScan) *)

NoDup(seq) == \A i, j \in DOMAIN seq : seq[i] = seq[j] => i = j
Range(seq) == {seq[i] : i \in DOMAIN seq}
StartsWith(p, k) == Len(p) <= Len(k) /\ SubSeq(k, 1, Len(p)) = p
\* the keys of table t that list(prefix) selects
Selected(t, prefix) == {k \in Present(t) : Like(prefix \o <<"%">>, k)}
\* no key was inserted since the scan began
Quiet == Present(kv[ScanNs]) = scan.start

\* C11: on an unchanging table, a scan with a limit L >= 1 returns no key twice,
\* ends after at most one call per key and a last one, and once it has ended with
\* list_complete its pages together are the result of one unbounded list(prefix).
C11_PaginationComplete ==
  (scan.phase # "idle" /\ scan.limit >= 1 /\ Quiet) =>
    LET whole == listQuery(kv[ScanNs], scan.prefix, NoCursor, 0).keys
    IN /\ NoDup(scan.pages)
       /\ scan.calls <= Len(whole) + 1
       /\ scan.phase = "done" => scan.pages = whole

\* C12: list(prefix = p) with no cursor and the default limit returns exactly the
\* keys of the table that start with p, in ascending order.
C12_PrefixListing ==
  (kvRet.op = "list" /\ kvRet.args.cursor = NoCursor /\ kvRet.args.limit = 0) =>
    kvRet.listed.keys =
      OrderByKey({k \in Present(kv[kvRet.ns]) : StartsWith(kvRet.args.prefix, k)})

\* C13: a call of list with limit L returns at most L keys; with exactly L keys,
\* list_complete is false and cursor is the last key returned; with fewer,
\* list_complete is true and cursor is undefined.
C13_CompletionFlag ==
  kvRet.op = "list" =>
    LET L == IF kvRet.args.limit = 0 THEN DefaultListLimit ELSE kvRet.args.limit
        page == kvRet.listed
    IN /\ Len(page.keys) <= L
       /\ Len(page.keys) = L => ~page.list_complete /\ page.cursor = page.keys[L]
       /\ Len(page.keys) < L => page.list_complete /\ page.cursor = NoCursor

\* a scan with limit 2 over three keys: a full page, then a page of one key
C13_Witness ==
  /\ kvRet.op = "list" /\ kvRet.args.limit = 2 /\ kvRet.args.cursor # NoCursor
  /\ Len(kvRet.listed.keys) = 1
  /\ scan.phase = "done" /\ scan.calls = 2 /\ Len(scan.pages) = 3

\* C14: while keys are inserted between its pages and none is deleted, a scan
\* returns no key twice, every page holds only keys above the cursor it was
\* called with, and a scan that has ended returned every selected key that was
\* in the table when it began.
C14_StableUnderInserts ==
  (scan.phase # "idle" /\ scan.limit >= 1) =>
    /\ NoDup(scan.pages)
    /\ scan.forward
    /\ scan.phase = "done" =>
         \A k \in scan.start : Like(scan.prefix \o <<"%">>, k) => k \in Range(scan.pages)

----------------------------------------------------------------------------
(* Claims about get / put and the namespaces (SpecKV) *)

\* C15: get(k) on a namespace returns the value of the most recent put of k in
\* that namespace (by put or putMultiple) unless k was deleted after it.
C15_ReadYourWrites ==
  kvRet.op = "get" =>
    \A e \in kvRet.value :
      written[kvRet.ns][e[1]] # Absent => e[2] = written[kvRet.ns][e[1]]

\* get returns the value last put in its namespace while the other namespace
\* holds another value under the same key
C15_Witness ==
  /\ kvRet.op = "get"
  /\ \E e \in kvRet.value, o \in Namespaces \ {kvRet.ns} :
       e[2] = "v2" /\ written[kvRet.ns][e[1]] = "v2" /\ kv[o][e[1]] = "v1"

\* C16: put, putMultiple, delete and deleteMultiple change no table but the one
\* of the namespace they are called on.
C16_NamespaceIsolation ==
  [][\A ns \in Namespaces :
       kv'[ns] # kv[ns] => ns = (IF tx.open THEN tx.ns ELSE kvRet'.ns)]_vars

\* a key was deleted in one namespace and is still held by the other
C16_Witness ==
  /\ kvRet.op \in {"delete", "deleteMultiple"} /\ kvRet.batch # <<>>
  /\ ~kvRet.threw /\ kvRet.failed = <<>>
  /\ \E o \in Namespaces \ {kvRet.ns} :
       /\ kv[o][kvRet.batch[1].key] # Absent
       /\ kv[kvRet.ns][kvRet.batch[1].key] = Absent
       /\ written[o][kvRet.batch[1].key] # Absent

----------------------------------------------------------------------------
(* Claims about the outcomes the queue processor records (SpecLive, SpecProc) *)

\* the row whose dispatch is outstanding
Outstanding == Head(inflight[1]).id

\* C17: when a dispatch returns, its row becomes Processed if and only if the
\* response was 2xx with success = true; for a non-2xx response, success = false
\* or an exception the row is marked failed instead, attempts incremented by one.
C17_OutcomeMapping ==
  [][(lastEvent' \in Outcomes /\ inflight # <<>>) =>
       LET before == write_queue[Outstanding]
           after == write_queue'[Outstanding]
       IN /\ after.processed = PROCESSED <=> lastEvent' = "success"
          /\ lastEvent' = "success" => after.attempts = before.attempts
          /\ lastEvent' # "success" =>
               /\ after.attempts = before.attempts + 1
               /\ after.processed \in {PENDING, DEAD}]_vars

\* C18: each non-2xx dispatch of a row increments attempts by one and leaves the
\* row Pending below max_attempts = 3 and Dead at 3; a Dead row has attempts = 3,
\* is not returned by fetchPending and is in no batch, so it is not dispatched again.
C18_DeadLetter ==
  /\ [][(lastEvent' = "httpError" /\ inflight # <<>>) =>
          LET before == write_queue[Outstanding]
              after == write_queue'[Outstanding]
          IN /\ after.attempts = before.attempts + 1
             /\ after.last_error = "HTTP 500: error"
             /\ after.processed =
                  IF before.attempts + 1 >= DefaultMaxAttempts THEN DEAD ELSE PENDING]_vars
  /\ [](\A i \in Ids(write_queue) :
          /\ write_queue[i].processed = PENDING => write_queue[i].attempts < DefaultMaxAttempts
          /\ write_queue[i].processed = DEAD =>
               /\ write_queue[i].attempts = DefaultMaxAttempts
               /\ i \notin FetchedIds(stmtFetch(write_queue, WriteQueueName, BatchLimit))
               /\ \A b \in DOMAIN inflight : i \notin FetchedIds(inflight[b]))

\* C19: a row whose message lacks operation, id or timestamp, or is not structured
\* data at all, is never dispatched; once a tick has handled it its last_error is
\* "Invalid message format", and it is Dead only with attempts = max_attempts.
C19_InvalidMessage ==
  \A i \in Ids(write_queue) :
    MessageCheck(write_queue[i].message).act # "dispatch" =>
      /\ \A b \in DOMAIN inflight : inflight[b] # <<>> => Head(inflight[b]).id # i
      /\ write_queue[i].attempts >= 1 => write_queue[i].last_error = "Invalid message format"
      /\ write_queue[i].processed # PROCESSED
      /\ write_queue[i].processed = DEAD <=> write_queue[i].attempts >= DefaultMaxAttempts

----------------------------------------------------------------------------
(* Further claims about SqliteQueue (Spec) *)

----------------------------------------------------------------------------
(* Claims about fetchPending, markProcessed, attempts and send (Spec, SpecCalls) *)

Min(a, b) == IF a <= b THEN a ELSE b

\* the ids of the Pending rows of queue q
PendingOf(tbl, q) ==
  {i \in Ids(tbl) : tbl[i].processed = PENDING /\ tbl[i].queue_name = q}

\* C21: fetchPending(limit) on queue q returns min(limit, number of Pending rows
\* of q) rows, each a Pending row of q with its message and attempts, in strictly
\* ascending id order, and every Pending row of q it leaves out has a larger id
\* than every row returned; without a limit it returns up to 10.  fetchPending
\* leaves the table as it is and ret holds its result until the next call, so
\* the result is compared with the table of the same state.
C21_FetchExact ==
  ret.op = "fetchPending" =>
    LET rows == ret.rows
        P == PendingOf(write_queue, ret.queue)
        got == {rows[j].id : j \in DOMAIN rows}
    IN /\ Len(rows) = Min(ret.limit, Cardinality(P))
       /\ got \subseteq P
       /\ \A j \in DOMAIN rows :
            /\ rows[j].message = write_queue[rows[j].id].message
            /\ rows[j].attempts = write_queue[rows[j].id].attempts
       /\ \A j, k \in DOMAIN rows : j < k => rows[j].id < rows[k].id
       /\ \A i \in P \ got : \A j \in DOMAIN rows : rows[j].id < i

\* fetchPending(1) returned the older of two Pending rows of its queue while the
\* limit cut the newer one off
C21_Witness ==
  /\ ret.op = "fetchPending" /\ ret.limit = 1 /\ Len(ret.rows) = 1
  /\ Cardinality(PendingOf(write_queue, ret.queue)) = 2
  /\ ret.rows[1].id = 1

\* C22: markProcessed(id) on an existing row leaves it Processed, a state in which
\* no fetchPending returns it, and a markProcessed on a row that is Processed
\* already changes nothing in the table: twice is the same as once.
C22_MarkProcessedIdempotent ==
  [][(call'.op = "markProcessed" /\ call'.id \in Ids(write_queue)) =>
       /\ write_queue'[call'.id].processed = PROCESSED
       /\ \A q \in Queues :
            call'.id \notin FetchedIds(stmtFetch(write_queue', q, DefaultFetchLimit))
       /\ call'.again => write_queue' = write_queue]_vars

\* markProcessed was called on a row that was Pending, then called again
C22_Witness ==
  /\ call.op = "markProcessed" /\ call.again
  /\ write_queue[call.id].processed = PROCESSED
  /\ write_queue[call.id].attempts = 0

\* no step lowers the attempts of a row, and a row is inserted with attempts = 0
AttemptsNeverDecrease ==
  \A i \in Ids(write_queue') :
    IF i \in Ids(write_queue)
    THEN write_queue'[i].attempts >= write_queue[i].attempts
    ELSE write_queue'[i].attempts = 0

\* C23: the attempts of a row start at 0, never decrease, and change only in a
\* markFailed call on that row, by exactly one.
C23_AttemptsMonotone ==
  [][/\ AttemptsNeverDecrease
     /\ \A i \in Ids(write_queue) :
          write_queue'[i].attempts # write_queue[i].attempts =>
            /\ call'.op = "markFailed" /\ call'.id = i
            /\ write_queue'[i].attempts = write_queue[i].attempts + 1]_vars

\* a row failed three times, and markProcessed was then called on it
C23_Witness ==
  /\ call.op = "markProcessed" /\ call.id \in Ids(write_queue)
  /\ write_queue[call.id].attempts = DefaultMaxAttempts
  /\ hist[call.id].failed = DefaultMaxAttempts

\* C24: send appends one row, Pending with attempts = 0 and max_attempts = 3 under
\* the queue's name, with an id above the id of every row of the table, holding
\* the argument itself when it is a string and its JSON text otherwise; the rows
\* already in the table are unchanged.
C24_SendAppends ==
  [][call'.op = "send" =>
       LET n == Len(write_queue)
           row == write_queue'[n + 1]
       IN /\ Len(write_queue') = n + 1
          /\ \A i \in 1..n : write_queue'[i] = write_queue[i]
          /\ row.processed = PENDING /\ row.attempts = 0 /\ row.max_attempts = 3
          /\ row.queue_name = call'.queue
          /\ row.id = call'.id
          /\ \A i \in 1..n : write_queue[i].id < row.id
          /\ row.message = IF call'.arg.type = "string" THEN call'.arg.text
                           ELSE JSONstringify(call'.arg)]_vars

\* a string was sent on one queue after a row of the other queue had failed
C24_Witness ==
  /\ call.op = "send" /\ call.arg.type = "string" /\ Len(write_queue) = 2
  /\ write_queue[2].message = TxtGarbage
  /\ write_queue[1].queue_name # write_queue[2].queue_name
  /\ write_queue[1].attempts >= 1

----------------------------------------------------------------------------
(* Further claims about SqliteKVStorage (SpecKV, SpecPair) *)

\* C25: deleteMultiple is all-or-nothing for every non-empty list of keys, a list
\* of one key included: it does not throw, and either it returns [] and no key of
\* the list is in the table, or it returns every key of the list and the table is
\* as it was before the call.
C25_DeleteAllOrNothing ==
  [][LET r == kvRet'
         before == IF tx.open THEN tx.snapshot ELSE kv[r.ns]
     IN (r.op = "deleteMultiple" /\ r.batch # <<>>) =>
          /\ ~r.threw
          /\ \/ /\ r.failed = <<>>
                /\ \A i \in DOMAIN r.batch : stmtGet(kv'[r.ns], r.batch[i].key) = Absent
             \/ /\ r.failed = BatchKeys(r.batch)
                /\ kv'[r.ns] = before]_vars

\* C26: of two putMultiple calls on one namespace over disjoint keys, made in
\* either order, at most one is inside its transaction at any time, and once
\* both have returned both returned [] and every key of either batch holds that
\* batch's value.
C26_NoLostUpdates ==
  /\ ~(\A c \in Callers : pair.status[c] = "running")
  /\ (\A c \in Callers : pair.status[c] = "returned") =>
       \A c \in Callers :
         /\ pair.failed[c] = <<>>
         /\ \A i \in DOMAIN pair.batch[c] :
              stmtGet(kv[tableName(PairNs)], pair.batch[c][i].key) = pair.batch[c][i].value

\* both calls have returned: a's was a transaction over two keys, b's wrote a
\* third key that a had written in an earlier round
C26_Witness ==
  /\ pair.phase = "done"
  /\ Cardinality(KeysOf(pair.batch["a"])) = 2
  /\ \A k \in KVKeys : kv[tableName(PairNs)][k] # Absent
  /\ \E k \in KVKeys : written[PairNs][k] = "v2"

\* C27: a delete(k) that returns leaves k absent, so that get(k) returns null,
\* and leaves every other key of the namespace and every other namespace as
\* they were; on an absent k it changes nothing: twice is the same as once.
C27_DeleteIdempotent ==
  [][(kvRet'.op = "delete" /\ ~kvRet'.threw) =>
       LET ns == kvRet'.ns
           k == kvRet'.batch[1].key
       IN /\ stmtGet(kv'[ns], k) = Absent
          /\ \A o \in KVKeys \ {k} : kv'[ns][o] = kv[ns][o]
          /\ \A n \in Namespaces \ {ns} : kv'[n] = kv[n]
          /\ kv[ns][k] = Absent => kv' = kv]_vars

\* delete returned for a key that was not in the table (it had been deleted
\* before) while the table holds another key
C27_Witness ==
  /\ kvRet.op = "delete" /\ ~kvRet.threw
  /\ written[kvRet.ns][kvRet.batch[1].key] = Absent
  /\ kv[kvRet.ns][kvRet.batch[1].key] = Absent
  /\ \E o \in CallKeys \ {kvRet.batch[1].key} : kv[kvRet.ns][o] # Absent

\* C28: getMultiple(keys) returns a map whose keys are exactly the requested keys
\* that are in the table, each with the value held for it (the value get
\* returns); keys not in the table are left out; for an empty list it returns
\* the empty map whether or not the storage can be queried.
C28_GetMultiple ==
  kvRet.op = "getMultiple" =>
    /\ kvRet.args = {} => ~kvRet.threw /\ kvRet.value = {}
    /\ ~kvRet.threw =>
         /\ {e[1] : e \in kvRet.value} =
              {k \in kvRet.args : stmtGet(kv[kvRet.ns], k) # Absent}
         /\ \A e \in kvRet.value : e[2] = stmtGet(kv[kvRet.ns], e[1])
         /\ \A e, f \in kvRet.value : e[1] = f[1] => e = f

\* getMultiple of two keys returned the one that is in the table
C28_Witness ==
  /\ kvRet.op = "getMultiple" /\ ~kvRet.threw
  /\ Cardinality(kvRet.args) = 2 /\ Cardinality(kvRet.value) = 1

----------------------------------------------------------------------------
(* Claims about the shared providers of env/sqlite.ts (SpecEnv) *)

OpenHandles == {i \in DOMAIN env.dbs : env.dbs[i].open}
LiveProcessors == {i \in DOMAIN env.procs : env.procs[i].timers > 0}

\* every initializeSqliteEnv that returns hands out the providers the first one
\* since the last close handed out
SameProviders ==
  (envRet.op = "initializeSqliteEnv" /\ envRet.threw = "") =>
    envRet.storage = env.first.storage /\ envRet.queue = env.first.queue

\* C29: between two closeSqliteConnections calls every initializeSqliteEnv with a
\* database path returns the storage provider and the queue provider that the
\* first such call returned, and at any time at most one storage handle is open
\* and at most one queue processor has a timer running.
C29_CreateOnce ==
  /\ SameProviders
  /\ Cardinality(OpenHandles) <= 1
  /\ Cardinality(LiveProcessors) <= 1

\* C30: initializeSqliteEnv with an absent or empty SQLITE_DB_PATH throws
\* "Missing required SQLite configuration: SQLITE_DB_PATH" and leaves the
\* module's providers, and every handle and processor built so far, as they were.
C30_ConfigFailsFast ==
  [][(envRet'.op = "initializeSqliteEnv" /\ envRet'.path \in {NoPath, ""}) =>
       /\ envRet'.threw = "Missing required SQLite configuration: SQLITE_DB_PATH"
       /\ env' = env]_vars

\* the call with an empty path threw while the module held both providers and
\* the processor was running
C30_Witness ==
  /\ envRet.op = "initializeSqliteEnv" /\ envRet.path = ""
  /\ envRet.threw = ConfigError
  /\ env.storageProvider # 0 /\ env.queueProvider # 0
  /\ env.procs[env.queueProvider].timers > 0
  /\ env.dbs[env.storageProvider].open


\* C31: closeSqliteConnections always returns, also with nothing initialized, and
\* leaves getSqliteQueueProvider() null; getSqliteQueueProvider() is non-null
\* exactly when an initializeSqliteEnv has returned since the last close; and the
\* first initializeSqliteEnv that returns after a close returns providers built by
\* that call: a queue provider never returned before, with no timer, on the open
\* handle of the storage provider it returns.
C31_ProviderLifecycle ==
  /\ [](ENABLED CloseSqliteConnections)
  /\ [](getSqliteQueueProvider # 0 <=> env.first # NoFirst)
  /\ [][envRet'.op = "closeSqliteConnections" =>
          getSqliteQueueProvider' = 0 /\ env'.storageProvider = 0]_vars
  /\ [][(envRet'.op = "initializeSqliteEnv" /\ envRet'.threw = ""
          /\ getSqliteQueueProvider = 0) =>
          /\ getSqliteQueueProvider' = envRet'.queue
          /\ envRet'.queue > Len(env.procs)
          /\ env.storageProvider = 0 => envRet'.storage > Len(env.dbs)
          /\ env'.procs[envRet'.queue].timers = 0
          /\ env'.procs[envRet'.queue].db = envRet'.storage
          /\ env'.dbs[envRet'.storage].open]_vars

\* an initializeSqliteEnv after a close returned a second pair of providers while
\* the first storage handle is closed
C31_Witness ==
  /\ envRet.op = "initializeSqliteEnv" /\ envRet.threw = ""
  /\ envRet.queue = 2 /\ envRet.storage = 2
  /\ getSqliteQueueProvider = 2
  /\ ~env.dbs[1].open

----------------------------------------------------------------------------
(* Further claims about the queue processor (SpecProc) *)

\* the step ends a tick: the callback returned without a dispatch to wait for,
\* or the dispatch that settled was the last of its batch or its outcome could
\* not be recorded
TickEnds ==
  \/ lastEvent' = "tickRan" /\ Len(inflight') = Len(inflight)
  \/ lastEvent' \in Outcomes /\ Len(inflight') < Len(inflight)

\* C32: however a tick ends (nothing fetched, every row handled, or fetchPending
\* or markFailed throwing on the handle), processing is false afterwards and no
\* timer is cleared by it, so that the next tick gets past the guard; processing
\* is true only while a batch waits for a dispatch.
C32_GuardRelease ==
  /\ [][TickEnds => /\ ~processing'
                    /\ ~TickSkips'
                    /\ activeTimers' = activeTimers
                    /\ processingInterval' = processingInterval]_vars
  /\ [](processing => inflight # <<>>)

\* a batch ended by an exception of markFailed while a timer is armed, and the
\* flag is false
C32_Witness ==
  /\ lastEvent \in Outcomes /\ closedUse = "batch"
  /\ inflight = <<>> /\ ~processing
  /\ activeTimers > 0


\* the rows of the batch behind the outstanding one, and those among them that
\* pass the message check
LaterRows == Tail(inflight[1])
LaterIds == FetchedIds(LaterRows)
LaterDispatchable ==
  {LaterRows[j].id : j \in {k \in DOMAIN LaterRows :
                              MessageCheck(LaterRows[k].message).act = "dispatch"}}

\* C33: when the dispatch of a row throws, the row is marked failed with the
\* exception's message, and the tick goes on with the rows behind it in the
\* batch: the next row that passes the message check is dispatched in the same
\* tick, the rows before it that do not are marked failed, and the batch ends
\* only when no row is left.
C33_FailureLocal ==
  [][(lastEvent' = "throw" /\ inflight # <<>>) =>
       /\ write_queue'[Outstanding].attempts = write_queue[Outstanding].attempts + 1
       /\ write_queue'[Outstanding].last_error = "fetch failed"
       /\ IF LaterDispatchable = {}
          THEN /\ inflight' = <<>>
               /\ \A i \in LaterIds :
                    write_queue'[i].attempts = write_queue[i].attempts + 1
          ELSE /\ inflight' # <<>>
               /\ Head(inflight'[1]).id \in LaterDispatchable
               /\ \A i \in LaterDispatchable : Head(inflight'[1]).id <= i
               /\ dispatchLog'.cur = Head(inflight'[1]).id /\ dispatchLog'.sameTick
               /\ \A i \in LaterIds :
                    i < Head(inflight'[1]).id =>
                      write_queue'[i].attempts = write_queue[i].attempts + 1]_vars


Ascending(rows) == \A j, k \in DOMAIN rows : j < k => rows[j].id < rows[k].id

\* C34: a batch holds at most 10 rows in ascending id order; at most one batch,
\* and so at most one call of fetch(), is outstanding at any time; the first
\* dispatch of a tick is made when none is outstanding, and a later dispatch of
\* the tick is made in the step that records the outcome of the row dispatched
\* before it, for a row with a larger id.
C34_Sequential ==
  /\ [](Len(inflight) <= 1)
  /\ [](\A b \in DOMAIN inflight :
          Len(inflight[b]) <= BatchLimit /\ Ascending(inflight[b]))
  /\ [][dispatchLog' # dispatchLog =>
          IF dispatchLog'.sameTick
          THEN /\ inflight # <<>>
               /\ lastEvent' \in Outcomes
               /\ \/ write_queue'[Outstanding].processed = PROCESSED
                  \/ write_queue'[Outstanding].attempts =
                       write_queue[Outstanding].attempts + 1
               /\ dispatchLog'.cur > Outstanding
               /\ dispatchLog'.cur = Head(inflight'[1]).id
          ELSE /\ inflight = <<>>
               /\ lastEvent' = "tickRan"]_vars

\* eleven rows were Pending when the tick fetched: its batch stopped at row 10,
\* nine of its rows are recorded and the tenth is being dispatched
C34_Witness ==
  /\ Len(write_queue) > BatchLimit
  /\ inflight # <<>> /\ dispatchLog.sameTick
  /\ Head(inflight[1]).id = BatchLimit /\ Len(inflight[1]) = 1
  /\ \A i \in 1..(BatchLimit - 1) : write_queue[i].processed = PROCESSED
  /\ write_queue[BatchLimit + 1].processed = PENDING


\* rows is what is left of batch after some of its first rows were handled
SuffixOf(rows, batch) ==
  \E n \in 1..Len(batch) : rows = SubSeq(batch, n + 1, Len(batch))

\* C35: the rows a tick goes on to dispatch were Pending rows of the write queue
\* when the tick fetched; a later dispatch of the tick is for a row of the same
\* batch; and a tick that finds no Pending row dispatches nothing.
C35_DispatchOnlyFetched ==
  /\ [][Len(inflight') > Len(inflight) =>
          /\ lastEvent' = "tickRan"
          /\ \A j \in DOMAIN inflight'[Len(inflight')] :
               LET row == inflight'[Len(inflight')][j]
               IN /\ row.id \in PendingOf(write_queue, WriteQueueName)
                  /\ row.attempts = write_queue[row.id].attempts]_vars
  /\ [][(Len(inflight') = Len(inflight) /\ inflight' # inflight) =>
          \A b \in DOMAIN inflight :
            inflight'[b] # inflight[b] => SuffixOf(inflight'[b], inflight[b])]_vars
  /\ [][(lastEvent' = "tickRan" /\ PendingOf(write_queue, WriteQueueName) = {}) =>
          inflight' = inflight /\ dispatchLog' = dispatchLog
          /\ write_queue' = write_queue]_vars
  /\ [](\A b \in DOMAIN inflight : inflight[b] # <<>>)

\* a tick that started while row 1 was Processed is dispatching row 2
C35_Witness ==
  /\ inflight # <<>> /\ ~dispatchLog.sameTick
  /\ dispatchLog.cur = 2 /\ Head(inflight[1]).id = 2
  /\ write_queue[1].processed = PROCESSED
  /\ MessageCheck(write_queue[1].message).act = "dispatch"


\* the row changed as by one markProcessed, or as by one markFailed
OneOutcome(before, after) ==
  \/ after = [before EXCEPT !.processed = PROCESSED]
  \/ /\ after.attempts = before.attempts + 1
     /\ after.processed \in {PENDING, DEAD}
     /\ after.last_error # NULL
     /\ after = [before EXCEPT !.attempts = after.attempts,
                               !.processed = after.processed,
                               !.last_error = after.last_error]

\* the rows a tick fetches: the first 10 Pending rows of the write queue
TickFetch(tbl) ==
  {i \in PendingOf(tbl, WriteQueueName) :
     Cardinality({j \in PendingOf(tbl, WriteQueueName) : j < i}) < BatchLimit}

\* every existing row in `handled` got one outcome, every other one is unchanged
HandledOnce(handled) ==
  \A i \in Ids(write_queue) :
    IF i \in handled THEN OneOutcome(write_queue[i], write_queue'[i])
    ELSE write_queue'[i] = write_queue[i]

\* C36: while the handle is open, each step of a tick gives exactly one outcome
\* (one markProcessed or one markFailed) to every row it takes off the batch and
\* changes no other row: the callback handles the fetched rows up to the first
\* one it dispatches, a dispatch that settles handles its row and the rows behind
\* it up to the next dispatch; a row handled has left the batch, and the batch
\* ends only when no row is left in it.
C36_OneOutcome ==
  /\ [][(lastEvent' = "tickRan" /\ dbOpen) =>
          HandledOnce(TickFetch(write_queue) \
                        (IF Len(inflight') > Len(inflight)
                         THEN FetchedIds(inflight'[Len(inflight')]) ELSE {}))]_vars
  /\ [][(lastEvent' \in Outcomes /\ inflight' # inflight /\ dbOpen) =>
          /\ HandledOnce(FetchedIds(inflight[1]) \
                           (IF inflight' = <<>> THEN {} ELSE FetchedIds(inflight'[1])))
          /\ inflight' # <<>> => SuffixOf(inflight'[1], inflight[1])]_vars

\* a tick has ended on an open handle with row 1 Processed and row 2 failed once
C36_Witness ==
  /\ dbOpen /\ inflight = <<>> /\ lastEvent \in Outcomes \ {"success"}
  /\ dispatchLog.sameTick /\ dispatchLog.cur = 2
  /\ write_queue[1].processed = PROCESSED /\ write_queue[1].attempts = 0
  /\ write_queue[2].processed = PENDING /\ write_queue[2].attempts = 1


\* C37: with the processor as the only caller of markProcessed and markFailed,
\* fetch() is called at most max_attempts = 3 times for any row over the run, no
\* call is made for a row after a call for it was answered with success = true,
\* and no row has more than max_attempts attempts.
C37_BoundedRedelivery ==
  /\ [](\A i \in DOMAIN dispatches : dispatches[i].count <= DefaultMaxAttempts)
  /\ [](\A i \in Ids(write_queue) : write_queue[i].attempts <= DefaultMaxAttempts)
  /\ [][\A i \in DOMAIN dispatches' :
          dispatches'[i].count > DispatchesOf(dispatches, i).count =>
            ~DispatchesOf(dispatches, i).succeeded]_vars

\* row 1 is Dead after three calls of fetch(), row 2 Processed after one
C37_Witness ==
  /\ DOMAIN dispatches = {1, 2}
  /\ dispatches[1].count = DefaultMaxAttempts /\ ~dispatches[1].succeeded
  /\ write_queue[1].processed = DEAD
  /\ dispatches[2].count = 1 /\ dispatches[2].succeeded
  /\ write_queue[2].processed = PROCESSED

----------------------------------------------------------------------------
(* Further claims about the SqliteQueue methods (SpecCalls) *)

\* C38: markProcessed and markFailed called on the queue object named q change
\* only rows whose queue_name is q: every row of another queue name keeps its
\* state, attempts and last_error, whatever id is passed.
C38_WritePartition ==
  [][call'.op \in {"markProcessed", "markFailed"} =>
       \A i \in Ids(write_queue) :
         write_queue[i].queue_name # call'.queue => write_queue'[i] = write_queue[i]]_vars

----------------------------------------------------------------------------
(* Further claims about the timer and the table (SpecProc, Spec) *)

\* C39: whatever the sequence of startProcessing and stopProcessing calls, at
\* most one polling timer is active, and when stopProcessing was the last of
\* them (processingInterval is null) no timer is active.
C39_SingleTimer ==
  /\ activeTimers <= 1
  /\ ~processingInterval => activeTimers = 0

\* C40: every Pending row has attempts < max_attempts and every Dead row has
\* attempts >= max_attempts, whatever the sequence of send, markProcessed and
\* markFailed calls (on any id, in any state of the row).
C40_StateAttempts ==
  \A i \in Ids(write_queue) :
    /\ write_queue[i].processed = PENDING =>
         write_queue[i].attempts < write_queue[i].max_attempts
    /\ write_queue[i].processed = DEAD =>
         write_queue[i].attempts >= write_queue[i].max_attempts

\* a row on which markProcessed was called is Dead: a markFailed after it took
\* the row from Processed to Dead, next to a row that is Pending after a failure
C40_Witness ==
  /\ Len(write_queue) = 2
  /\ hist[1].processed /\ write_queue[1].processed = DEAD
  /\ write_queue[2].processed = PENDING /\ write_queue[2].attempts = 2

====
